---- MODULE Spec2Model ----
(***************************************************************************)
(* BaseBrowserSessionManager (src/src/rpa/session.ts): the session state   *)
(* machine, the Mutex guarding the page, the keep-alive tick and the       *)
(* recovery procedure, run by concurrent asynchronous callers; and, each   *)
(* on its own, sendCallback (src/src/rpa/callback.ts), the worker          *)
(* processor of createRpaJob (src/src/rpa/job.ts) and the in-memory queue  *)
(* of stub mode (src/src/stub.ts).                                         *)
(*                                                                         *)
(* One action is one synchronous segment of an async method: the code from *)
(* one await that suspends on the driver, a hook, the operation callback   *)
(* or the mutex up to the next one.  Driver calls, hooks and callbacks     *)
(* resolve or reject nondeterministically.                                 *)
(***************************************************************************)
EXTENDS Naturals, Integers, Sequences, FiniteSets, TLC

\* Callers of the public API, and the setInterval callback of startKeepAlive.
Callers == {"a", "b"}
Ticker == "k"
Procs == Callers \cup {Ticker}
None == "none"

\* Number of browsers chromium.launch may hand out in one run of the model.
MaxGen == 2

\* Number of public API calls made in one run of the model.
MaxCalls == 3

\* Jobs handed to the processor of createRpaJob in one run of the model.
MaxJobs == 2

Jobs == 1..MaxJobs

\* Jobs added to the stub queue, and stub workers created, in one run of
\* the model.
MaxAdds == 2

MaxWorkers == 2

StubJobs == 1..MaxAdds

VARIABLES
    state,           \* this.state
    browser,         \* this.browser: 0 is null, g > 0 the g-th launched browser
    context,         \* this.context: 0 is null, g the context of browser g
    page,            \* this.page: 0 is null, g the page of browser g
    nextGen,         \* browsers launched so far
    mutex,           \* this.mutex: [holder, waiters] (FIFO)
    keepAliveTimer,  \* this.keepAliveTimer # null
    timers,          \* interval timers currently scheduled
    orphans,         \* pages on which a callback that lost the timeout race still runs
    heal,            \* page on which a callback died of a browser error, no lifecycle call running or made since
    calls,           \* public API calls made so far
    last,            \* the call that settled in the step leading here, if one did
    pc,              \* per process: the await it is suspended at
    op,              \* per process: the method it is running
    opErr,           \* per process: how the callback of its withPage call settled
    riFrom,          \* per process: the call site of its running recoverInternal
    ret,             \* per process: how its last recoverInternal settled
    opPage,          \* per process: the page handed to its callback / hooks
    gen,             \* per process: the browser its launch sequence created
    cycles,          \* per process: rebuild cycles begun by the current call
    sawRecovering,   \* per process: recover() was invoked while a rebuild was running
    log,             \* per process: the events the current call has emitted so far
    forced           \* per process: the forceClose() (its number among the calls) made during its Busy period, else 0

\* One call of sendCallback.
VARIABLES
    cbPc,            \* the await the call is suspended at, or how it ended
    retries,         \* const retries, after the default
    retryDelay,      \* const retryDelay (ms), after the default
    attempt,         \* the loop variable attempt
    lastError,       \* let lastError
    delays           \* the delays (ms) of the setTimeout calls awaited so far

\* The jobs handed to the processor of a createRpaJob worker.
VARIABLES
    jobPc,           \* per job: the await its processor is suspended at, or how it ended
    bmBrowser,       \* per job: browserManager.browser # null
    jobError,        \* per job: the error thrown inside the try block
    jobThrown,       \* per job: the error the processor rejected with
    closeCalls       \* per job: calls of browserManager.close()

\* The stub queue and worker of one queue name.
VARIABLES
    jobQueues,       \* jobQueues.get(queueName): [has, jobs]
    workers,         \* workers.get(queueName): 0 is no entry, w the processor of the w-th worker
    eventHandlers,   \* eventHandlers.get(queueName): no entry, an empty map, or listeners
    jobIdCounter,    \* jobIdCounter
    workerCount,     \* createStubWorker calls so far
    immediates,      \* setImmediate callbacks scheduled: [job, worker]
    processing,      \* processor calls awaited: [job, worker]
    processed,       \* per job: calls of a processor with it
    delivered        \* per job: completed and failed events handed to a listener

handle == <<browser, context, page>>
timer == <<keepAliveTimer, timers>>
shared == <<state, browser, context, page, nextGen, mutex, keepAliveTimer, timers, orphans, heal, calls>>
\* What a call keeps between its awaits; cleared when it settles.
frame == <<op, opErr, riFrom, ret, opPage, gen, cycles, sawRecovering, log, forced>>
session == <<shared, last, pc, frame>>
callbackVars == <<cbPc, retries, retryDelay, attempt, lastError, delays>>
jobVars == <<jobPc, bmBrowser, jobError, jobThrown, closeCalls>>
stubVars == <<jobQueues, workers, eventHandlers, jobIdCounter, workerCount,
              immediates, processing, processed, delivered>>
\* What no method of the session manager touches.
others == <<callbackVars, jobVars, stubVars>>
\* What sendCallback, the processor of createRpaJob and the stub leave alone.
notCallback == <<session, jobVars, stubVars>>
notJob == <<session, callbackVars, stubVars>>
notStub == <<session, callbackVars, jobVars>>
vars == <<state, browser, context, page, nextGen, mutex, keepAliveTimer, timers, orphans, heal,
          calls, last, pc, op, opErr, riFrom, ret, opPage, gen, cycles, sawRecovering, log, forced,
          others>>

SessionState == {"uninitialized", "starting", "logging_in", "ready", "busy",
                 "recovering", "error", "closed"}

Lifecycle == {"start", "close", "forceClose", "restart", "recover"}

\* The record of a call that settled (or, with result "running", whose callback
\* was just started): what the caller is told and what the call did.
NoEvent ==
    [proc |-> None, op |-> None, result |-> None, opErr |-> None, from |-> None,
     ret |-> None, cycles |-> 0, page |-> 0, was |-> None, heal |-> 0,
     log |-> <<>>, forced |-> 0, activity |-> FALSE]

Init ==
    /\ state = "uninitialized"
    /\ browser = 0 /\ context = 0 /\ page = 0
    /\ nextGen = 0
    /\ mutex = [holder |-> None, waiters |-> <<>>]
    /\ keepAliveTimer = FALSE
    /\ timers = 0
    /\ orphans = {}
    /\ heal = 0
    /\ calls = 0
    /\ last = NoEvent
    /\ pc = [t \in Procs |-> "idle"]
    /\ op = [t \in Procs |-> None]
    /\ opErr = [t \in Procs |-> None]
    /\ riFrom = [t \in Procs |-> None]
    /\ ret = [t \in Procs |-> None]
    /\ opPage = [t \in Procs |-> 0]
    /\ gen = [t \in Procs |-> 0]
    /\ cycles = [t \in Procs |-> 0]
    /\ sawRecovering = [t \in Procs |-> FALSE]
    /\ log = [t \in Procs |-> <<>>]
    /\ forced = [t \in Procs |-> 0]
    /\ cbPc = "idle"
    /\ retries = 0 /\ retryDelay = 0
    /\ attempt = 0
    /\ lastError = None
    /\ delays = <<>>
    /\ jobPc = [j \in Jobs |-> "waiting"]
    /\ bmBrowser = [j \in Jobs |-> FALSE]
    /\ jobError = [j \in Jobs |-> None]
    /\ jobThrown = [j \in Jobs |-> None]
    /\ closeCalls = [j \in Jobs |-> 0]
    /\ jobQueues = [has |-> FALSE, jobs |-> <<>>]
    /\ workers = 0
    /\ eventHandlers = "absent"
    /\ jobIdCounter = 0
    /\ workerCount = 0
    /\ immediates = {}
    /\ processing = {}
    /\ processed = [j \in StubJobs |-> 0]
    /\ delivered = [j \in StubJobs |-> 0]

----
\* async-mutex Mutex: acquire() grants at once when free, else queues FIFO;
\* release() hands the mutex to the first waiter.

MutexAcquire_NoExclusion(m, t) == [holder |-> t, waiters |-> m.waiters]

MutexAcquire(m, t) ==
    IF m.holder = None
    THEN [holder |-> t, waiters |-> m.waiters]
    ELSE [holder |-> m.holder, waiters |-> Append(m.waiters, t)]

\* release() that frees the mutex and leaves its queue waiting.
MutexRelease_ForgetsWaiters(m) == [holder |-> None, waiters |-> m.waiters]

MutexRelease(m) ==
    IF m.waiters = <<>>
    THEN [holder |-> None, waiters |-> <<>>]
    ELSE [holder |-> Head(m.waiters), waiters |-> Tail(m.waiters)]

\* release(): the function returned by mutex.acquire(), called in a finally.
ReleaseGate == mutex' = MutexRelease(mutex)

\* releasePage(): busy -> ready, anything else is left alone.
ReleasePageState_Noop(s) == s

ReleasePageState(s) == IF s = "busy" THEN "ready" ELSE s

\* releasePage() setting Ready and the timestamp whatever the state is.
ReleasePage_AlwaysReady(s) ==
    [state |-> "ready", touched |-> TRUE, emitted |-> <<[name |-> "stateChange", to |-> "ready"]>>]

\* releasePage() called in state s: the state it leaves, whether it writes
\* lastActivityTime, and the events it emits.
ReleasePage(s) ==
    IF s = "busy"
    THEN [state |-> ReleasePageState(s), touched |-> TRUE,
          emitted |-> <<[name |-> "stateChange", to |-> ReleasePageState(s)]>>]
    ELSE [state |-> s, touched |-> FALSE, emitted |-> <<>>]

\* t, running method o, has outcome r; e is how its callback settled, h the
\* pending self-heal it met, and was the state the segment started from.
Event(t, o, r, e, h) ==
    [proc |-> t, op |-> o, result |-> r, opErr |-> e, from |-> riFrom[t],
     ret |-> ret[t], cycles |-> cycles[t], page |-> opPage[t], was |-> state,
     heal |-> h, log |-> log[t], forced |-> forced[t], activity |-> FALSE]

\* this.emit('stateChange', s, previousState) of setState(s), and the other
\* events; the previousState argument is not recorded.
StateChange(s) == [name |-> "stateChange", to |-> s]

Emitted(n) == [name |-> n, to |-> None]

\* The running call of t emits the events evs, in this order.
Emit(t, evs) == log' = [log EXCEPT ![t] = @ \o evs]

\* The promise of method o, run by t, settles with outcome r, the segment
\* that settles it having emitted evs and, if a, written lastActivityTime.
SettleTouching(t, o, r, e, h, evs, a) ==
    /\ last' = [Event(t, o, r, e, h) EXCEPT !.log = @ \o evs, !.activity = a]
    /\ pc' = [pc EXCEPT ![t] = "idle"]
    /\ op' = [op EXCEPT ![t] = None]
    /\ opErr' = [opErr EXCEPT ![t] = None]
    /\ riFrom' = [riFrom EXCEPT ![t] = None]
    /\ ret' = [ret EXCEPT ![t] = None]
    /\ opPage' = [opPage EXCEPT ![t] = 0]
    /\ gen' = [gen EXCEPT ![t] = 0]
    /\ cycles' = [cycles EXCEPT ![t] = 0]
    /\ sawRecovering' = [sawRecovering EXCEPT ![t] = FALSE]
    /\ log' = [log EXCEPT ![t] = <<>>]
    /\ forced' = [forced EXCEPT ![t] = 0]
    /\ UNCHANGED others

\* The promise settles in a segment that leaves lastActivityTime alone.
SettleEmitting(t, o, r, e, h, evs) == SettleTouching(t, o, r, e, h, evs, FALSE)

\* The promise settles in a segment that emits nothing.
SettleAt(t, o, r, e, h) == SettleEmitting(t, o, r, e, h, <<>>)

Settle(t, r) == SettleAt(t, op[t], r, opErr[t], 0)

SettleWith(t, r, evs) == SettleEmitting(t, op[t], r, opErr[t], 0, evs)

\* The running method moves on to its next await.
Goto(t, l) ==
    /\ pc' = [pc EXCEPT ![t] = l]
    /\ last' = NoEvent
    /\ UNCHANGED others

\* Another caller is in the middle of start/close/forceClose/restart/recover.
LifecycleActive(t) ==
    \E u \in Callers \ {t} : op[u] \in Lifecycle

----
\* closeBrowser(), up to its first suspending await.
CloseBrowserCall(t) ==
    /\ UNCHANGED <<browser, context>>
    /\ IF context # 0
       THEN Goto(t, "cb_ctx") /\ page' = page
       ELSE IF browser # 0
            THEN Goto(t, "cb_browser") /\ page' = page
            ELSE Goto(t, "cb_ret") /\ page' = 0

\* context.close() resolved.
CloseBrowserContextClosed(t) ==
    /\ pc[t] = "cb_ctx"
    /\ context' = 0
    /\ browser' = browser
    /\ IF browser # 0
       THEN Goto(t, "cb_browser") /\ page' = page
       ELSE Goto(t, "cb_ret") /\ page' = 0
    /\ UNCHANGED <<state, nextGen, mutex, timer, orphans, heal, frame>>
    /\ UNCHANGED calls

\* browser.close() resolved.
CloseBrowserBrowserClosed(t) ==
    /\ pc[t] = "cb_browser"
    /\ browser' = 0
    /\ page' = 0
    /\ context' = context
    /\ Goto(t, "cb_ret")
    /\ UNCHANGED <<state, nextGen, mutex, timer, orphans, heal, frame>>
    /\ UNCHANGED calls

\* context.close() or browser.close() rejected: the catch swallows it.
CloseBrowserThrows(t) ==
    /\ pc[t] \in {"cb_ctx", "cb_browser"}
    /\ Goto(t, "cb_ret")
    /\ UNCHANGED <<shared, frame>>

----
\* startKeepAlive() scheduling a new interval without clearing the old one.
StartKeepAlive_NoClear ==
    /\ keepAliveTimer' = TRUE
    /\ timers' = timers + 1

\* startKeepAlive(): clear the old interval, schedule a new one.
StartKeepAlive ==
    /\ keepAliveTimer' = TRUE
    /\ timers' = IF keepAliveTimer THEN timers ELSE timers + 1

\* The head of close() and forceClose(): clear the interval.
StopKeepAlive ==
    /\ keepAliveTimer' = FALSE
    /\ timers' = IF keepAliveTimer THEN timers - 1 ELSE timers

----
\* start() without its state check.
StartBody_NoCheck(t, o) ==
    /\ state' = "starting"
    /\ op' = [op EXCEPT ![t] = o]
    /\ Goto(t, "st_launch")
    /\ UNCHANGED <<opErr, riFrom, ret, opPage, gen, cycles, sawRecovering, forced>>
    /\ Emit(t, <<StateChange("starting")>>)

\* start(), lines 114-123, entered as method o: the state check, then
\* setState('starting') and chromium.launch() is awaited.
StartBody(t, o) ==
    IF state \in {"uninitialized", "closed", "error"}
    THEN /\ state' = "starting"
         /\ op' = [op EXCEPT ![t] = o]
         /\ Goto(t, "st_launch")
         /\ UNCHANGED <<opErr, riFrom, ret, opPage, gen, cycles, sawRecovering, forced>>
         /\ Emit(t, <<StateChange("starting")>>)
    ELSE /\ state' = state
         /\ SettleAt(t, o, "InvalidState", None, 0)

Start(t) ==
    /\ t \in Callers
    /\ pc[t] = "idle"
    /\ calls < MaxCalls
    /\ calls' = calls + 1
    /\ StartBody(t, "start")
    /\ heal' = 0
    /\ UNCHANGED <<handle, nextGen, mutex, timer, orphans>>

\* chromium.launch() resolved; browser.newContext() is awaited.
StartLaunched(t) ==
    /\ pc[t] = "st_launch"
    /\ nextGen < MaxGen
    /\ nextGen' = nextGen + 1
    /\ browser' = nextGen + 1
    /\ gen' = [gen EXCEPT ![t] = nextGen + 1]
    /\ Goto(t, "st_context")
    /\ UNCHANGED <<state, context, page, mutex, timer, orphans, heal>>
    /\ UNCHANGED <<op, opErr, riFrom, ret, opPage, cycles, sawRecovering, log, forced>>
    /\ UNCHANGED calls

\* newContext() resolved; context.newPage() is awaited.
StartContextCreated(t) ==
    /\ pc[t] = "st_context"
    /\ context' = gen[t]
    /\ Goto(t, "st_page")
    /\ UNCHANGED <<state, browser, page, nextGen, mutex, timer, orphans, heal, frame>>
    /\ UNCHANGED calls

\* newPage() resolved; setState('logging_in') and performLogin() is awaited.
StartPageCreated(t) ==
    /\ pc[t] = "st_page"
    /\ page' = gen[t]
    /\ state' = "logging_in"
    /\ Goto(t, "st_login")
    /\ Emit(t, <<StateChange("logging_in")>>)
    /\ UNCHANGED <<browser, context, nextGen, mutex, timer, orphans, heal>>
    /\ UNCHANGED <<op, opErr, riFrom, ret, opPage, gen, cycles, sawRecovering, forced>>
    /\ UNCHANGED calls

\* performLogin() resolved, and start() forgets the keep-alive interval.
StartLoggedIn_NoKeepAlive(t) ==
    /\ pc[t] = "st_login"
    /\ state' = "ready"
    /\ SettleTouching(t, op[t], "ok", opErr[t], 0, <<StateChange("ready")>>, TRUE)
    /\ UNCHANGED <<handle, nextGen, mutex, timer, orphans, heal>>
    /\ UNCHANGED calls

\* performLogin() resolved: startKeepAlive(), setState('ready'),
\* lastActivityTime = new Date(), return.
StartLoggedIn(t) ==
    /\ pc[t] = "st_login"
    /\ StartKeepAlive
    /\ state' = "ready"
    /\ SettleTouching(t, op[t], "ok", opErr[t], 0, <<StateChange("ready")>>, TRUE)
    /\ UNCHANGED <<handle, nextGen, mutex, orphans, heal>>
    /\ UNCHANGED calls

\* The catch of start() without setState('error').
StartFails_NoErrorState(t) ==
    /\ pc[t] \in {"st_launch", "st_context", "st_page", "st_login"}
    /\ state' = state
    /\ SettleWith(t, "StartupFailure", <<Emitted("error")>>)
    /\ UNCHANGED <<handle, nextGen, mutex, timer, orphans, heal>>
    /\ UNCHANGED calls

\* launch, newContext, newPage or performLogin rejected: the catch of start().
StartFails(t) ==
    /\ pc[t] \in {"st_launch", "st_context", "st_page", "st_login"}
    /\ state' = "error"
    /\ SettleWith(t, "StartupFailure", <<StateChange("error"), Emitted("error")>>)
    /\ UNCHANGED <<handle, nextGen, mutex, timer, orphans, heal>>
    /\ UNCHANGED calls

----
\* close() and forceClose(): clear the interval, closeBrowser(), then
\* setState('closed').  restart() is close() followed by start().
CloseHead(t, o) ==
    /\ t \in Callers
    /\ pc[t] = "idle"
    /\ calls < MaxCalls
    /\ calls' = calls + 1
    /\ op' = [op EXCEPT ![t] = o]
    /\ StopKeepAlive
    /\ CloseBrowserCall(t)
    /\ heal' = 0
    /\ UNCHANGED <<state, nextGen, mutex, orphans>>
    /\ forced' = [u \in Procs |->
                      IF o = "forceClose" /\ state = "busy" /\ pc[u] = "wp_race"
                      THEN calls + 1 ELSE forced[u]]
    /\ UNCHANGED <<opErr, riFrom, ret, opPage, gen, cycles, sawRecovering, log>>

Close(t) == CloseHead(t, "close")

ForceClose(t) == CloseHead(t, "forceClose")

Restart(t) == CloseHead(t, "restart")

\* closeBrowser() returned to close()/forceClose(): setState('closed').
CloseFinish(t) ==
    /\ pc[t] = "cb_ret"
    /\ riFrom[t] = None
    /\ state' = "closed"
    /\ IF op[t] = "restart"
       THEN /\ Goto(t, "rs_start")
            /\ Emit(t, <<StateChange("closed")>>)
            /\ UNCHANGED <<op, opErr, riFrom, ret, opPage, gen, cycles, sawRecovering, forced>>
       ELSE SettleWith(t, "ok", <<StateChange("closed")>>)
    /\ UNCHANGED <<handle, nextGen, mutex, timer, orphans, heal>>
    /\ UNCHANGED calls

\* restart() returning after close() without calling start().
RestartStart_NoStart(t) ==
    /\ pc[t] = "rs_start"
    /\ Settle(t, "ok")
    /\ UNCHANGED <<state, handle, nextGen, mutex, timer, orphans, heal>>
    /\ UNCHANGED calls

\* restart(): close() has resolved, start() is called.
RestartStart(t) ==
    /\ pc[t] = "rs_start"
    /\ StartBody(t, "restart")
    /\ UNCHANGED <<handle, nextGen, mutex, timer, orphans, heal>>
    /\ UNCHANGED calls

----
\* recoverInternal(), up to its first suspending await: the reentrancy guard,
\* setState('recovering'), closeBrowser(); pre are the events the caller
\* emitted in the same segment before the call.
RecoverInternalEmit(t, from, pre) ==
    /\ riFrom' = [riFrom EXCEPT ![t] = from]
    /\ IF state = "recovering"
       THEN /\ state' = state
            /\ Goto(t, "ri_ret")
            /\ ret' = [ret EXCEPT ![t] = "ok"]
            /\ Emit(t, pre)
            /\ UNCHANGED <<handle, cycles>>
       ELSE /\ state' = "recovering"
            /\ cycles' = [cycles EXCEPT ![t] = @ + 1]
            /\ ret' = [ret EXCEPT ![t] = None]
            /\ Emit(t, pre \o <<StateChange("recovering")>>)
            /\ CloseBrowserCall(t)

\* recoverInternal() called with nothing emitted before it in the segment.
RecoverInternalCall(t, from) == RecoverInternalEmit(t, from, <<>>)

\* closeBrowser() returned to recoverInternal(): chromium.launch() is awaited.
RecoverInternalAfterTeardown(t) ==
    /\ pc[t] = "cb_ret"
    /\ riFrom[t] # None
    /\ Goto(t, "ri_launch")
    /\ UNCHANGED <<shared, frame>>

\* chromium.launch() resolved; browser.newContext() is awaited.
RecoverInternalLaunched(t) ==
    /\ pc[t] = "ri_launch"
    /\ nextGen < MaxGen
    /\ nextGen' = nextGen + 1
    /\ browser' = nextGen + 1
    /\ gen' = [gen EXCEPT ![t] = nextGen + 1]
    /\ Goto(t, "ri_context")
    /\ UNCHANGED <<state, context, page, mutex, timer, orphans, heal>>
    /\ UNCHANGED <<op, opErr, riFrom, ret, opPage, cycles, sawRecovering, log, forced>>
    /\ UNCHANGED calls

\* newContext() resolved; context.newPage() is awaited.
RecoverInternalContextCreated(t) ==
    /\ pc[t] = "ri_context"
    /\ context' = gen[t]
    /\ Goto(t, "ri_page")
    /\ UNCHANGED <<state, browser, page, nextGen, mutex, timer, orphans, heal, frame>>
    /\ UNCHANGED calls

\* newPage() resolved; performLogin() is awaited.
RecoverInternalPageCreated(t) ==
    /\ pc[t] = "ri_page"
    /\ page' = gen[t]
    /\ Goto(t, "ri_login")
    /\ UNCHANGED <<state, browser, context, nextGen, mutex, timer, orphans, heal, frame>>
    /\ UNCHANGED calls

\* performLogin() resolved: emit 'recovered', setState('ready'), return.
RecoverInternalLoggedIn(t) ==
    /\ pc[t] = "ri_login"
    /\ state' = "ready"
    /\ ret' = [ret EXCEPT ![t] = "ok"]
    /\ Goto(t, "ri_ret")
    /\ UNCHANGED <<handle, nextGen, mutex, timer, orphans, heal>>
    /\ UNCHANGED <<op, opErr, riFrom, opPage, gen, cycles, sawRecovering, forced>>
    /\ Emit(t, <<Emitted("recovered"), StateChange("ready")>>)
    /\ UNCHANGED calls

\* The catch of recoverInternal() swallowing the failure.
RecoverInternalFails_Swallows(t) ==
    /\ pc[t] \in {"ri_launch", "ri_context", "ri_page", "ri_login"}
    /\ state' = "error"
    /\ ret' = [ret EXCEPT ![t] = "ok"]
    /\ Goto(t, "ri_ret")
    /\ UNCHANGED <<handle, nextGen, mutex, timer, orphans, heal>>
    /\ UNCHANGED <<op, opErr, riFrom, opPage, gen, cycles, sawRecovering, forced>>
    /\ Emit(t, <<StateChange("error"), Emitted("error")>>)
    /\ UNCHANGED calls

\* launch, newContext, newPage or performLogin rejected: the catch of
\* recoverInternal(): setState('error'), emit 'error', rethrow.
RecoverInternalFails(t) ==
    /\ pc[t] \in {"ri_launch", "ri_context", "ri_page", "ri_login"}
    /\ state' = "error"
    /\ ret' = [ret EXCEPT ![t] = "fail"]
    /\ Goto(t, "ri_ret")
    /\ UNCHANGED <<handle, nextGen, mutex, timer, orphans, heal>>
    /\ UNCHANGED <<op, opErr, riFrom, opPage, gen, cycles, sawRecovering, forced>>
    /\ Emit(t, <<StateChange("error"), Emitted("error")>>)
    /\ UNCHANGED calls

----
\* withPage(): mutex.acquire() is awaited.
WithPage(t) ==
    /\ t \in Callers
    /\ pc[t] = "idle"
    /\ calls < MaxCalls
    /\ calls' = calls + 1
    /\ op' = [op EXCEPT ![t] = "withPage"]
    /\ mutex' = MutexAcquire(mutex, t)
    /\ Goto(t, "wp_gate")
    /\ UNCHANGED <<state, handle, nextGen, timer, orphans, heal>>
    /\ UNCHANGED <<opErr, riFrom, ret, opPage, gen, cycles, sawRecovering, log, forced>>

\* acquirePage() handing out the page without looking at the state.
AcquirePageCheck_NoStateCheck(t) ==
    /\ heal' = 0
    /\ IF page # 0
       THEN /\ state' = "busy"
            /\ opPage' = [opPage EXCEPT ![t] = page]
            /\ pc' = [pc EXCEPT ![t] = "wp_race"]
            /\ last' = [Event(t, op[t], "running", None, heal) EXCEPT
                           !.page = page, !.log = @ \o <<StateChange("busy")>>]
            /\ UNCHANGED <<mutex, op, opErr, riFrom, ret, gen, cycles, sawRecovering, forced>>
            /\ Emit(t, <<StateChange("busy")>>)
            /\ UNCHANGED others
       ELSE /\ state' = state
            /\ SettleAt(t, op[t], "Unavailable", None, heal)
            /\ ReleaseGate

\* acquirePage() returning the page without setState('busy').
AcquirePageCheck_NoBusy(t) ==
    /\ heal' = 0
    /\ IF state = "ready" /\ page # 0
       THEN /\ state' = state
            /\ opPage' = [opPage EXCEPT ![t] = page]
            /\ pc' = [pc EXCEPT ![t] = "wp_race"]
            /\ last' = [Event(t, op[t], "running", None, heal) EXCEPT !.page = page]
            /\ UNCHANGED <<mutex, op, opErr, riFrom, ret, gen, cycles, sawRecovering, log, forced>>
            /\ UNCHANGED others
       ELSE /\ state' = state
            /\ SettleAt(t, op[t], "Unavailable", None, heal)
            /\ ReleaseGate

\* acquirePage(), lines 216-224, and then either fn(page) raced against the
\* timer, or the throw through the outer finally of withPage (release()).
AcquirePageCheck(t) ==
    /\ heal' = 0
    /\ IF state = "ready" /\ page # 0
       THEN /\ state' = "busy"
            /\ opPage' = [opPage EXCEPT ![t] = page]
            /\ pc' = [pc EXCEPT ![t] = "wp_race"]
            /\ last' = [Event(t, op[t], "running", None, heal) EXCEPT
                           !.page = page, !.log = @ \o <<StateChange("busy")>>]
            /\ UNCHANGED <<mutex, op, opErr, riFrom, ret, gen, cycles, sawRecovering, forced>>
            /\ Emit(t, <<StateChange("busy")>>)
            /\ UNCHANGED others
       ELSE /\ state' = state
            /\ SettleAt(t, op[t], "Unavailable", None, heal)
            /\ ReleaseGate

\* acquirePage() without the auto-recovery from the error state.
WpAcquirePage_NoAutoRecovery(t) ==
    /\ pc[t] = "wp_gate"
    /\ mutex.holder = t
    /\ AcquirePageCheck(t)
    /\ UNCHANGED <<handle, nextGen, timer, orphans>>
    /\ UNCHANGED calls

\* withPage calling acquirePage() without waiting for the mutex.
WpAcquirePage_NoGate(t) ==
    /\ pc[t] = "wp_gate"
    /\ IF state = "error"
       THEN /\ RecoverInternalCall(t, "acq")
            /\ UNCHANGED <<mutex, op, opErr, opPage, gen, sawRecovering, forced, heal>>
       ELSE /\ AcquirePageCheck(t)
            /\ UNCHANGED handle
    /\ UNCHANGED <<nextGen, timer, orphans>>
    /\ UNCHANGED calls

\* The mutex was granted: acquirePage() is called.
WpAcquirePage(t) ==
    /\ pc[t] = "wp_gate"
    /\ mutex.holder = t
    /\ IF state = "error"
       THEN /\ RecoverInternalCall(t, "acq")
            /\ UNCHANGED <<mutex, op, opErr, opPage, gen, sawRecovering, forced, heal>>
       ELSE /\ AcquirePageCheck(t)
            /\ UNCHANGED handle
    /\ UNCHANGED <<nextGen, timer, orphans>>
    /\ UNCHANGED calls

\* The auto-recovery of acquirePage() returned or threw.
AcquirePageAfterRecovery(t) ==
    /\ pc[t] = "ri_ret"
    /\ riFrom[t] = "acq"
    /\ IF ret[t] = "ok"
       THEN AcquirePageCheck(t)
       ELSE /\ SettleAt(t, op[t], "RecoveryFailure", None, heal)
            /\ ReleaseGate
            /\ heal' = 0
            /\ state' = state
    /\ UNCHANGED <<handle, nextGen, timer, orphans>>
    /\ UNCHANGED calls

\* The tail of withPage(): the inner finally (clearTimeout, releasePage()),
\* the outer finally (release()), and the promise settles with outcome r
\* after the callback settled with e.
WpSettle(t, r, e) ==
    /\ state' = ReleasePage(state).state
    /\ ReleaseGate
    /\ SettleTouching(t, op[t], r, e, 0, ReleasePage(state).emitted, ReleasePage(state).touched)

\* fn(page) resolved before the timer.
WpOpSucceeds(t) ==
    /\ pc[t] = "wp_race"
    /\ WpSettle(t, "ok", "ok")
    /\ UNCHANGED <<handle, nextGen, timer, orphans, heal>>
    /\ UNCHANGED calls

\* isBrowserError() taking every error of the callback for a browser error.
WpOpBusinessError_Recovers(t) ==
    /\ pc[t] = "wp_race"
    /\ opErr' = [opErr EXCEPT ![t] = "Business"]
    /\ RecoverInternalCall(t, "wp_catch")
    /\ UNCHANGED <<nextGen, mutex, timer, orphans, heal>>
    /\ UNCHANGED <<op, opPage, gen, sawRecovering, forced>>
    /\ UNCHANGED calls

\* fn(page) rejected with an error isBrowserError() does not match.
WpOpBusinessError(t) ==
    /\ pc[t] = "wp_race"
    /\ WpSettle(t, "Business", "Business")
    /\ UNCHANGED <<handle, nextGen, timer, orphans, heal>>
    /\ UNCHANGED calls

\* The timeout error taken for a browser error.
WpOpTimeout_Recovers(t) ==
    /\ pc[t] = "wp_race"
    /\ opErr' = [opErr EXCEPT ![t] = "Timeout"]
    /\ orphans' = orphans \cup {opPage[t]}
    /\ RecoverInternalCall(t, "wp_catch")
    /\ UNCHANGED <<nextGen, mutex, timer, heal>>
    /\ UNCHANGED <<op, opPage, gen, sawRecovering, forced>>
    /\ UNCHANGED calls

\* The timer fired first: 'Page operation timed out after <timeoutMs>ms',
\* which isBrowserError() does not match.  fn(page) is not cancelled.
WpOpTimeout(t) ==
    /\ pc[t] = "wp_race"
    /\ orphans' = orphans \cup {opPage[t]}
    /\ WpSettle(t, "Timeout", "Timeout")
    /\ UNCHANGED <<handle, nextGen, timer, heal>>
    /\ UNCHANGED calls

\* fn(page) rejected with 'Target closed', 'Browser closed', 'Protocol
\* error', 'Session closed' or 'Connection closed': recoverInternal().
WpOpBrowserError(t) ==
    /\ pc[t] = "wp_race"
    /\ opErr' = [opErr EXCEPT ![t] = "Fatal"]
    /\ RecoverInternalCall(t, "wp_catch")
    /\ heal' = IF LifecycleActive(t) THEN heal ELSE opPage[t]
    /\ UNCHANGED <<nextGen, mutex, timer, orphans>>
    /\ UNCHANGED <<op, opPage, gen, sawRecovering, forced>>
    /\ UNCHANGED calls

\* The callback's error rethrown even when recoverInternal() threw.
WpCatchAfterRecovery_AlwaysOriginal(t) ==
    /\ pc[t] = "ri_ret"
    /\ riFrom[t] = "wp_catch"
    /\ WpSettle(t, opErr[t], opErr[t])
    /\ UNCHANGED <<handle, nextGen, timer, orphans, heal>>
    /\ UNCHANGED calls

\* The recovery started by the catch of withPage() returned (the callback's
\* error is rethrown) or threw (its error propagates); then the finallys.
WpCatchAfterRecovery(t) ==
    /\ pc[t] = "ri_ret"
    /\ riFrom[t] = "wp_catch"
    /\ WpSettle(t, IF ret[t] = "ok" THEN opErr[t] ELSE "RecoveryFailure", opErr[t])
    /\ UNCHANGED <<handle, nextGen, timer, orphans, heal>>
    /\ UNCHANGED calls

\* A callback that lost the timeout race settles at last.
OrphanSettles(g) ==
    /\ g \in orphans
    /\ orphans' = orphans \ {g}
    /\ last' = NoEvent
    /\ UNCHANGED <<state, handle, nextGen, mutex, timer, heal, pc, frame>>
    /\ UNCHANGED <<calls, others>>

----
\* recover(): mutex.acquire() is awaited.
Recover(t) ==
    /\ t \in Callers
    /\ pc[t] = "idle"
    /\ calls < MaxCalls
    /\ calls' = calls + 1
    /\ op' = [op EXCEPT ![t] = "recover"]
    /\ mutex' = MutexAcquire(mutex, t)
    /\ Goto(t, "rec_gate")
    /\ sawRecovering' = [sawRecovering EXCEPT ![t] = (state = "recovering")]
    /\ heal' = 0
    /\ UNCHANGED <<state, handle, nextGen, timer, orphans>>
    /\ UNCHANGED <<opErr, riFrom, ret, opPage, gen, cycles, log, forced>>

\* recover() calling recoverInternal() without waiting for the mutex.
RecoverGate_NoWait(t) ==
    /\ pc[t] = "rec_gate"
    /\ RecoverInternalCall(t, "recover")
    /\ UNCHANGED <<nextGen, mutex, timer, orphans, heal>>
    /\ UNCHANGED <<op, opErr, opPage, gen, sawRecovering, forced>>
    /\ UNCHANGED calls

\* The mutex was granted: recoverInternal() is called.
RecoverGate(t) ==
    /\ pc[t] = "rec_gate"
    /\ mutex.holder = t
    /\ RecoverInternalCall(t, "recover")
    /\ UNCHANGED <<nextGen, mutex, timer, orphans, heal>>
    /\ UNCHANGED <<op, opErr, opPage, gen, sawRecovering, forced>>
    /\ UNCHANGED calls

\* recoverInternal() returned or threw: the finally of recover().
RecoverFinish(t) ==
    /\ pc[t] = "ri_ret"
    /\ riFrom[t] = "recover"
    /\ ReleaseGate
    /\ Settle(t, IF ret[t] = "ok" THEN "ok" ELSE "RecoveryFailure")
    /\ UNCHANGED <<state, handle, nextGen, timer, orphans, heal>>
    /\ UNCHANGED calls

----
\* The interval fires: refreshSession() up to mutex.acquire().
Tick(t) ==
    /\ t = Ticker
    /\ pc[t] = "idle"
    /\ timers > 0
    /\ calls < MaxCalls
    /\ calls' = calls + 1
    /\ IF state # "ready" \/ page = 0
       THEN /\ SettleAt(t, "tick", "skipped", None, 0)
            /\ UNCHANGED mutex
       ELSE /\ op' = [op EXCEPT ![t] = "tick"]
            /\ mutex' = MutexAcquire(mutex, t)
            /\ Goto(t, "ka_gate")
            /\ UNCHANGED <<opErr, riFrom, ret, opPage, gen, cycles, sawRecovering, log, forced>>
    /\ UNCHANGED <<state, handle, nextGen, timer, orphans, heal>>

\* The second check returning from inside the try without release().
KaGate_LeakOnSkip(t) ==
    /\ pc[t] = "ka_gate"
    /\ mutex.holder = t
    /\ IF state # "ready" \/ page = 0
       THEN /\ Settle(t, "skipped")
            /\ UNCHANGED mutex
       ELSE /\ opPage' = [opPage EXCEPT ![t] = page]
            /\ Goto(t, "ka_refresh")
            /\ UNCHANGED <<mutex, op, opErr, riFrom, ret, gen, cycles, sawRecovering, log, forced>>
    /\ UNCHANGED <<state, handle, nextGen, timer, orphans, heal>>
    /\ UNCHANGED calls

\* The mutex was granted: the second state check, then refreshForKeepAlive().
KaGate(t) ==
    /\ pc[t] = "ka_gate"
    /\ mutex.holder = t
    /\ IF state # "ready" \/ page = 0
       THEN /\ Settle(t, "skipped")
            /\ ReleaseGate
       ELSE /\ opPage' = [opPage EXCEPT ![t] = page]
            /\ Goto(t, "ka_refresh")
            /\ UNCHANGED <<mutex, op, opErr, riFrom, ret, gen, cycles, sawRecovering, log, forced>>
    /\ UNCHANGED <<state, handle, nextGen, timer, orphans, heal>>
    /\ UNCHANGED calls

\* refreshForKeepAlive() resolved: isLoggedIn() is awaited.
KaRefreshed(t) ==
    /\ pc[t] = "ka_refresh"
    /\ Goto(t, "ka_check")
    /\ UNCHANGED <<shared, frame>>

\* isLoggedIn() resolved true.
KaLoggedIn(t) ==
    /\ pc[t] = "ka_check"
    /\ SettleTouching(t, op[t], "ok", opErr[t], 0, <<>>, TRUE)
    /\ ReleaseGate
    /\ UNCHANGED <<state, handle, nextGen, timer, orphans, heal>>
    /\ UNCHANGED calls

\* isLoggedIn() resolved false and recoverInternal() is called without the
\* 'sessionExpired' event.
KaExpired_NoEvent(t) ==
    /\ pc[t] = "ka_check"
    /\ RecoverInternalCall(t, "ka_try")
    /\ UNCHANGED <<nextGen, mutex, timer, orphans, heal>>
    /\ UNCHANGED <<op, opErr, opPage, gen, sawRecovering, forced>>
    /\ UNCHANGED calls

\* isLoggedIn() resolved false: emit 'sessionExpired', recoverInternal().
KaExpired(t) ==
    /\ pc[t] = "ka_check"
    /\ RecoverInternalEmit(t, "ka_try", <<Emitted("sessionExpired")>>)
    /\ UNCHANGED <<nextGen, mutex, timer, orphans, heal>>
    /\ UNCHANGED <<op, opErr, opPage, gen, sawRecovering, forced>>
    /\ UNCHANGED calls

\* refreshForKeepAlive() or isLoggedIn() rejected: the catch calls
\* recoverInternal().
KaHookThrows(t) ==
    /\ pc[t] \in {"ka_refresh", "ka_check"}
    /\ RecoverInternalCall(t, "ka_catch")
    /\ UNCHANGED <<nextGen, mutex, timer, orphans, heal>>
    /\ UNCHANGED <<op, opErr, opPage, gen, sawRecovering, forced>>
    /\ UNCHANGED calls

\* The recovery called from the try returned (finally: release()) or threw
\* (the catch calls recoverInternal() again).
KaAfterRecovery(t) ==
    /\ pc[t] = "ri_ret"
    /\ riFrom[t] = "ka_try"
    /\ IF ret[t] = "ok"
       THEN /\ SettleTouching(t, op[t], "ok", opErr[t], 0, <<>>, TRUE)
            /\ ReleaseGate
            /\ UNCHANGED <<state, handle>>
       ELSE /\ RecoverInternalCall(t, "ka_catch")
            /\ UNCHANGED <<mutex, op, opErr, opPage, gen, sawRecovering, forced>>
    /\ UNCHANGED <<nextGen, timer, orphans, heal>>
    /\ UNCHANGED calls

\* The recovery called from the catch returned or threw: finally: release().
KaCatchAfterRecovery(t) ==
    /\ pc[t] = "ri_ret"
    /\ riFrom[t] = "ka_catch"
    /\ Settle(t, IF ret[t] = "ok" THEN "ok" ELSE "RecoveryFailure")
    /\ ReleaseGate
    /\ UNCHANGED <<state, handle, nextGen, timer, orphans, heal>>
    /\ UNCHANGED calls

----
\* sendCallback (src/src/rpa/callback.ts): POST the result, retrying after a
\* failed attempt.

\* const { timeout = 30000, retries = 3, retryDelay = 1000 } = options
DefaultRetries == 3

DefaultRetryDelay == 1000

\* Largest retries option passed in one run of the model.
MaxRetries == 4

\* The options argument: the fields it has, and their values.
CallbackOptions ==
    [has : SUBSET {"retries", "retryDelay"}, retries : 0..MaxRetries, retryDelay : {250}]

\* sendCallback(callbackUrl, result, o) up to the first fetch().
SendCallback(o) ==
    /\ cbPc = "idle"
    /\ retries' = IF "retries" \in o.has THEN o.retries ELSE DefaultRetries
    /\ retryDelay' = IF "retryDelay" \in o.has THEN o.retryDelay ELSE DefaultRetryDelay
    /\ attempt' = 0
    /\ lastError' = None
    /\ delays' = <<>>
    /\ cbPc' = "fetch"
    /\ UNCHANGED notCallback

\* The catch of the loop body waiting the delay after the last attempt too.
CallbackCatch_DelaysAfterLast(e) ==
    /\ lastError' = e
    /\ delays' = Append(delays, retryDelay * (attempt + 1))
    /\ IF attempt < retries
       THEN /\ cbPc' = "sleep"
            /\ UNCHANGED attempt
       ELSE /\ attempt' = attempt + 1
            /\ cbPc' = "thrown"
    /\ UNCHANGED <<retries, retryDelay>>

\* The catch of the loop body after error e: wait retryDelay * (attempt + 1)
\* when attempts are left, else the loop ends and lastError is thrown.
CallbackCatch(e) ==
    /\ lastError' = e
    /\ IF attempt < retries
       THEN /\ delays' = Append(delays, retryDelay * (attempt + 1))
            /\ cbPc' = "sleep"
            /\ UNCHANGED attempt
       ELSE /\ attempt' = attempt + 1
            /\ cbPc' = "thrown"
            /\ UNCHANGED delays
    /\ UNCHANGED <<retries, retryDelay>>

\* fetch() resolved with a response whose ok is isOk; response.text() is
\* awaited.
FetchResolves(isOk) ==
    /\ cbPc = "fetch"
    /\ cbPc' = IF isOk THEN "text_ok" ELSE "text_error"
    /\ UNCHANGED <<retries, retryDelay, attempt, lastError, delays, notCallback>>

\* fetch() rejected: a network error, or the abort of the timeout.
FetchRejects(e) ==
    /\ cbPc = "fetch"
    /\ CallbackCatch(e)
    /\ UNCHANGED notCallback

\* response.text() settled (its rejection is swallowed): return on an ok
\* response, else throw 'HTTP error', caught by the catch of the loop body.
ResponseRead ==
    /\ cbPc \in {"text_ok", "text_error"}
    /\ IF cbPc = "text_ok"
       THEN /\ cbPc' = "returned"
            /\ UNCHANGED <<retries, retryDelay, attempt, lastError, delays>>
       ELSE CallbackCatch("HTTP")
    /\ UNCHANGED notCallback

\* The setTimeout of the retry delay fired: attempt++ and the next fetch().
RetryDelayOver ==
    /\ cbPc = "sleep"
    /\ attempt' = attempt + 1
    /\ cbPc' = "fetch"
    /\ UNCHANGED <<retries, retryDelay, lastError, delays, notCallback>>

CallbackNext ==
    \/ \E o \in CallbackOptions : SendCallback(o)
    \/ \E isOk \in BOOLEAN : FetchResolves(isOk)
    \/ \E e \in {"Network", "Abort"} : FetchRejects(e)
    \/ ResponseRead
    \/ RetryDelayOver

----
\* createRpaJob (src/src/rpa/job.ts): the processor given to createWorker,
\* with the BrowserManager (src/src/rpa/browser.ts) it creates per job.

\* The processor is called with job j: new BrowserManager, and
\* browserManager.launch() awaits chromium.launch().
JobStart(j) ==
    /\ jobPc[j] = "waiting"
    /\ jobPc' = [jobPc EXCEPT ![j] = "launch"]
    /\ UNCHANGED <<bmBrowser, jobError, jobThrown, closeCalls, notJob>>

\* BrowserManager.close() called by the finally block, the try block having
\* thrown e (None: it completed): browser.close() is awaited if a browser
\* is held, else close() returns and the processor settles.
JobFinally(j, e) ==
    /\ jobError' = [jobError EXCEPT ![j] = e]
    /\ closeCalls' = [closeCalls EXCEPT ![j] = @ + 1]
    /\ IF bmBrowser[j]
       THEN /\ jobPc' = [jobPc EXCEPT ![j] = "close"]
            /\ UNCHANGED jobThrown
       ELSE /\ jobPc' = [jobPc EXCEPT ![j] = IF e = None THEN "returned" ELSE "thrown"]
            /\ jobThrown' = [jobThrown EXCEPT ![j] = e]

\* chromium.launch() resolved: this.browser is set, newContext() is awaited.
JobLaunched(j) ==
    /\ jobPc[j] = "launch"
    /\ bmBrowser' = [bmBrowser EXCEPT ![j] = TRUE]
    /\ jobPc' = [jobPc EXCEPT ![j] = "context"]
    /\ UNCHANGED <<jobError, jobThrown, closeCalls, notJob>>

\* newContext() resolved, newPage() is awaited; newPage() resolved, launch()
\* returns and handler(ctx) is awaited.
JobLaunchStep(j) ==
    /\ jobPc[j] \in {"context", "page"}
    /\ jobPc' = [jobPc EXCEPT ![j] = IF @ = "context" THEN "page" ELSE "handler"]
    /\ UNCHANGED <<bmBrowser, jobError, jobThrown, closeCalls, notJob>>

\* chromium.launch(), newContext() or newPage() rejected: launch() throws,
\* the catch block rethrows, the finally block runs.
JobLaunchFails(j) ==
    /\ jobPc[j] \in {"launch", "context", "page"}
    /\ JobFinally(j, "Launch")
    /\ UNCHANGED <<bmBrowser, notJob>>

\* handler(ctx) resolved: screenshot.cleanup() is awaited.
JobHandlerResolves(j) ==
    /\ jobPc[j] = "handler"
    /\ jobPc' = [jobPc EXCEPT ![j] = "cleanup"]
    /\ UNCHANGED <<bmBrowser, jobError, jobThrown, closeCalls, notJob>>

\* handler(ctx) rejected: the catch block rethrows, the finally block runs.
JobHandlerRejects(j) ==
    /\ jobPc[j] = "handler"
    /\ JobFinally(j, "Handler")
    /\ UNCHANGED <<bmBrowser, notJob>>

\* screenshot.cleanup() resolved (the try block is done) or rejected (the
\* catch block rethrows): the finally block runs.
JobCleanupSettles(j, isOk) ==
    /\ jobPc[j] = "cleanup"
    /\ JobFinally(j, IF isOk THEN None ELSE "Cleanup")
    /\ UNCHANGED <<bmBrowser, notJob>>

\* browser.close() resolved: the fields are nulled, close() returns, and the
\* processor returns the result or rethrows the error of the try block.
JobBrowserClosed(j) ==
    /\ jobPc[j] = "close"
    /\ bmBrowser' = [bmBrowser EXCEPT ![j] = FALSE]
    /\ jobPc' = [jobPc EXCEPT ![j] = IF jobError[j] = None THEN "returned" ELSE "thrown"]
    /\ jobThrown' = [jobThrown EXCEPT ![j] = jobError[j]]
    /\ UNCHANGED <<jobError, closeCalls, notJob>>

\* browser.close() rejected: close() throws out of the finally block, and
\* the processor rejects with that error.
JobBrowserCloseFails(j) ==
    /\ jobPc[j] = "close"
    /\ jobPc' = [jobPc EXCEPT ![j] = "thrown"]
    /\ jobThrown' = [jobThrown EXCEPT ![j] = "Close"]
    /\ UNCHANGED <<bmBrowser, jobError, closeCalls, notJob>>

JobNext ==
    \E j \in Jobs :
        \/ JobStart(j) \/ JobLaunched(j) \/ JobLaunchStep(j) \/ JobLaunchFails(j)
        \/ JobHandlerResolves(j) \/ JobHandlerRejects(j)
        \/ \E isOk \in BOOLEAN : JobCleanupSettles(j, isOk)
        \/ JobBrowserClosed(j) \/ JobBrowserCloseFails(j)

----
\* Stub mode (src/src/stub.ts): the module-level maps jobQueues, workers and
\* eventHandlers under one queue name, and the setImmediate callbacks that
\* run the processor.

\* createStubQueue(queueName) with no entry in jobQueues; with one it
\* changes nothing.
CreateStubQueue ==
    /\ ~jobQueues.has
    /\ jobQueues' = [has |-> TRUE, jobs |-> <<>>]
    /\ UNCHANGED <<workers, eventHandlers, jobIdCounter, workerCount,
                   immediates, processing, processed, delivered, notStub>>

\* queue.add(name, data): createStubJob, push, and setImmediate if a worker
\* is registered.  On a closed queue the push throws.
QueueAdd ==
    /\ jobIdCounter < MaxAdds
    /\ jobIdCounter' = jobIdCounter + 1
    /\ IF jobQueues.has
       THEN /\ jobQueues' = [jobQueues EXCEPT !.jobs = Append(@, jobIdCounter + 1)]
            /\ immediates' = IF workers # 0
                              THEN immediates \cup {[job |-> jobIdCounter + 1, worker |-> workers]}
                              ELSE immediates
       ELSE UNCHANGED <<jobQueues, immediates>>
    /\ UNCHANGED <<workers, eventHandlers, workerCount, processing, processed, delivered, notStub>>

\* queue.close().
QueueClose ==
    /\ jobQueues.has
    /\ jobQueues' = [has |-> FALSE, jobs |-> <<>>]
    /\ UNCHANGED <<workers, eventHandlers, jobIdCounter, workerCount,
                   immediates, processing, processed, delivered, notStub>>

\* createStubWorker(queueName, processor): register the processor, reset the
\* event handlers, setImmediate for every job of jobQueues.get(queueName).
CreateStubWorker ==
    /\ workerCount < MaxWorkers
    /\ workerCount' = workerCount + 1
    /\ workers' = workerCount + 1
    /\ eventHandlers' = "empty"
    /\ immediates' = immediates \cup
           {[job |-> jobQueues.jobs[i], worker |-> workerCount + 1] :
                i \in 1..Len(jobQueues.jobs)}
    /\ UNCHANGED <<jobQueues, jobIdCounter, processing, processed, delivered, notStub>>

\* worker.on('completed', cb) and worker.on('failed', cb).
WorkerOn ==
    /\ eventHandlers = "empty"
    /\ eventHandlers' = "listeners"
    /\ UNCHANGED <<jobQueues, workers, jobIdCounter, workerCount,
                   immediates, processing, processed, delivered, notStub>>

\* worker.close().
WorkerClose ==
    /\ workers # 0 \/ eventHandlers # "absent"
    /\ workers' = 0
    /\ eventHandlers' = "absent"
    /\ UNCHANGED <<jobQueues, jobIdCounter, workerCount,
                   immediates, processing, processed, delivered, notStub>>

\* A setImmediate callback runs: await processor(job).
ImmediateRuns(i) ==
    /\ i \in immediates
    /\ immediates' = immediates \ {i}
    /\ processing' = processing \cup {i}
    /\ processed' = [processed EXCEPT ![i.job] = @ + 1]
    /\ UNCHANGED <<jobQueues, workers, eventHandlers, jobIdCounter, workerCount,
                   delivered, notStub>>

\* processor(job) resolved or rejected: emitWorkerEvent 'completed' or
\* 'failed', handed to the listeners eventHandlers holds at that moment.
ProcessorSettles(i) ==
    /\ i \in processing
    /\ processing' = processing \ {i}
    /\ delivered' = [delivered EXCEPT ![i.job] =
                         IF eventHandlers = "listeners" THEN @ + 1 ELSE @]
    /\ UNCHANGED <<jobQueues, workers, eventHandlers, jobIdCounter, workerCount,
                   immediates, processed, notStub>>

StubNext ==
    \/ CreateStubQueue \/ QueueAdd \/ QueueClose
    \/ CreateStubWorker \/ WorkerOn \/ WorkerClose
    \/ \E i \in immediates : ImmediateRuns(i)
    \/ \E i \in processing : ProcessorSettles(i)

----
Next ==
    \/ \E t \in Procs :
        \/ Start(t) \/ StartLaunched(t) \/ StartContextCreated(t)
        \/ StartPageCreated(t) \/ StartLoggedIn(t) \/ StartFails(t)
        \/ Close(t) \/ ForceClose(t) \/ Restart(t) \/ CloseFinish(t) \/ RestartStart(t)
        \/ CloseBrowserContextClosed(t) \/ CloseBrowserBrowserClosed(t) \/ CloseBrowserThrows(t)
        \/ RecoverInternalAfterTeardown(t) \/ RecoverInternalLaunched(t)
        \/ RecoverInternalContextCreated(t) \/ RecoverInternalPageCreated(t)
        \/ RecoverInternalLoggedIn(t) \/ RecoverInternalFails(t)
        \/ WithPage(t) \/ WpAcquirePage(t) \/ AcquirePageAfterRecovery(t)
        \/ WpOpSucceeds(t) \/ WpOpBusinessError(t) \/ WpOpTimeout(t) \/ WpOpBrowserError(t)
        \/ WpCatchAfterRecovery(t)
        \/ Recover(t) \/ RecoverGate(t) \/ RecoverFinish(t)
        \/ Tick(t) \/ KaGate(t) \/ KaRefreshed(t) \/ KaLoggedIn(t) \/ KaExpired(t)
        \/ KaHookThrows(t) \/ KaAfterRecovery(t) \/ KaCatchAfterRecovery(t)
    \/ \E g \in 1..MaxGen : OrphanSettles(g)

Spec == Init /\ [][Next]_vars

CallbackSpec == Init /\ [][CallbackNext]_vars

JobSpec == Init /\ [][JobNext]_vars

StubSpec == Init /\ [][StubNext]_vars

\* The continuation of t after the await it is suspended at: the awaited
\* driver call, hook or teardown settles, the mutex is granted, or the
\* callback of withPage settles or loses the race against the timer.
Continue(t) ==
    \/ StartLaunched(t) \/ StartContextCreated(t) \/ StartPageCreated(t)
    \/ StartLoggedIn(t) \/ StartFails(t)
    \/ CloseFinish(t) \/ RestartStart(t)
    \/ CloseBrowserContextClosed(t) \/ CloseBrowserBrowserClosed(t) \/ CloseBrowserThrows(t)
    \/ RecoverInternalAfterTeardown(t) \/ RecoverInternalLaunched(t)
    \/ RecoverInternalContextCreated(t) \/ RecoverInternalPageCreated(t)
    \/ RecoverInternalLoggedIn(t) \/ RecoverInternalFails(t)
    \/ WpAcquirePage(t) \/ AcquirePageAfterRecovery(t)
    \/ WpOpSucceeds(t) \/ WpOpBusinessError(t) \/ WpOpTimeout(t) \/ WpOpBrowserError(t)
    \/ WpCatchAfterRecovery(t)
    \/ RecoverGate(t) \/ RecoverFinish(t)
    \/ KaGate(t) \/ KaRefreshed(t) \/ KaLoggedIn(t) \/ KaExpired(t)
    \/ KaHookThrows(t) \/ KaAfterRecovery(t) \/ KaCatchAfterRecovery(t)

\* Driver calls, hooks and teardown terminate, the timer of withPage fires,
\* and the event loop runs every continuation that is ready.  Nothing makes
\* a caller call, the interval fire again or an abandoned callback settle.
Fairness == \A t \in Procs : WF_vars(Continue(t))

FairSpec == Spec /\ Fairness

TypeOK ==
    /\ state \in SessionState
    /\ browser \in 0..MaxGen /\ context \in 0..MaxGen /\ page \in 0..MaxGen
    /\ nextGen \in 0..MaxGen
    /\ mutex.holder \in Procs \cup {None}
    /\ keepAliveTimer \in BOOLEAN
    /\ timers \in 0..1
    /\ orphans \subseteq 1..MaxGen
    /\ heal \in 0..MaxGen
    /\ \A t \in Procs : forced[t] \in 0..MaxCalls

----
\* t waits in the queue of mutex m.
InWaiters(m, t) == \E i \in 1..Len(m.waiters) : m.waiters[i] = t

\* The withPage call of t is between its acquirePage() and its releasePage().
InOperation(t) ==
    op[t] = "withPage" /\ (pc[t] = "wp_race" \/ riFrom[t] = "wp_catch")

\* t is suspended on mutex.acquire().
AtGate(t) == pc[t] \in {"wp_gate", "rec_gate", "ka_gate"}

\* The awaits of start().
StartAwaits == {"st_launch", "st_context", "st_page", "st_login"}

\* Number of 'error' events in the event log l.
ErrorsIn(l) == Cardinality({i \in 1..Len(l) : l[i] = Emitted("error")})

\* The awaits of a recoverInternal() run that passed the reentrancy guard.
RecoverInternalAwaits ==
    {"cb_ctx", "cb_browser", "cb_ret", "ri_launch", "ri_context", "ri_page", "ri_login"}

\* This step is taken by t.
Stepped(t) == pc'[t] # pc[t] \/ last'.proc = t

\* The all-or-nothing handle: browser, context and page together.
HandleWhole == (browser = 0) = (context = 0) /\ (context = 0) = (page = 0)

\* The rows of the state-machine table of setState transitions.
TransitionTable ==
    ({"uninitialized", "closed", "error"} \X {"starting"})
    \cup ({"starting"} \X {"logging_in"})
    \cup ({"ready"} \X {"busy"})
    \cup ({"ready", "busy", "error"} \X {"recovering"})
    \cup ({"logging_in", "busy", "recovering"} \X {"ready"})
    \cup ({"starting", "logging_in", "recovering"} \X {"error"})
    \cup (SessionState \X {"closed"})

\* This step is t invoking start(), directly or as the second half of restart().
StartInvoked(t) ==
    \/ pc[t] = "idle" /\ pc'[t] = "st_launch"
    \/ pc[t] = "idle" /\ last'.proc = t /\ last'.op = "start"
    \/ pc[t] = "rs_start" /\ pc'[t] # "rs_start"

----
\* C1: under every interleaving of withPage calls at most one call is
\* between its acquirePage() and its releasePage().
C1_MutualExclusion == Cardinality({t \in Procs : InOperation(t)}) <= 1

\* A callback runs while the other caller's withPage waits for the mutex.
C1_Witness ==
    \E t, u \in Callers :
        /\ pc[t] = "wp_race" /\ mutex.holder = t
        /\ pc[u] = "wp_gate" /\ InWaiters(mutex, u)

\* C2: every acquisition of the mutex by withPage, recover() or a keep-alive
\* tick is released exactly once, by its holder, in the segment that settles
\* the call: a settled call holds nothing, a holder loses the mutex only
\* through its own release() at the exit, and every exit releases.
C2_GateReleasedOnce ==
    [][\A t \in Procs :
        /\ pc'[t] = "idle" => (mutex'.holder # t /\ ~InWaiters(mutex', t))
        /\ (mutex.holder = t /\ mutex'.holder # t) =>
               (pc[t] # "idle" /\ pc'[t] = "idle" /\ mutex' = MutexRelease(mutex))
        /\ (pc[t] # "idle" /\ pc'[t] = "idle" /\ op[t] \in {"withPage", "recover", "tick"}) =>
               (mutex.holder = t /\ mutex' = MutexRelease(mutex))
      ]_vars

\* A keep-alive tick whose hook threw and whose recovery failed has settled.
C2_Witness ==
    /\ last.op = "tick" /\ last.result = "RecoveryFailure" /\ last.from = "ka_catch"
    /\ mutex.holder # last.proc

\* C3: while a callback that lost the timeout race still runs against a
\* page, no other callback and no keep-alive hook is started on that page.
C3_NoSecondUserOfPage ==
    \A t \in Procs :
        pc[t] \in {"wp_race", "ka_refresh", "ka_check"} => opPage[t] \notin orphans

\* C4 as claimed: when the timeout rejection is delivered the gate is free
\* and the state is Ready.
C4_Original ==
    last.result = "Timeout" => (mutex.holder = None /\ state = "ready")

\* C4 as amended: the timeout rejects withPage without a recovery; the caller
\* no longer holds the gate, which is free or held by a waiter it was handed
\* to; the state is Ready if it was still Busy when the timer fired and is
\* otherwise left as close(), forceClose() or start() set it.
C4_TimeoutReleases ==
    last.result = "Timeout" =>
        /\ last.op = "withPage" /\ last.from # "wp_catch"
        /\ mutex.holder # last.proc /\ ~InWaiters(mutex, last.proc)
        /\ (mutex.holder # None => AtGate(mutex.holder))
        /\ state = (IF last.was = "busy" THEN "ready" ELSE last.was)

\* A timeout was delivered with the state back at Ready.
C4_Witness == last.result = "Timeout" /\ state = "ready" /\ last.page \in orphans

\* C5: after a withPage call whose callback died of a browser error, with no
\* start/close/forceClose/restart/recover running at that moment or called
\* since, the next withPage call gets a fresh page and runs its callback,
\* unless the auto-recovery it ran itself from the error state failed.
C5_SelfHealing ==
    (last.heal # 0 /\ last.op = "withPage") =>
        \/ last.result = "running" /\ last.page # 0 /\ last.page # last.heal
        \/ last.result = "RecoveryFailure" /\ last.from = "acq" /\ last.ret = "fail"

\* The callback of the next call was started on a page other than the dead one.
C5_Witness == last.heal # 0 /\ last.result = "running" /\ last.page # last.heal

\* C6: when the callback fails with a browser error, recoverInternal() has
\* run to its end before withPage rejects, and the caller gets the callback's
\* error if the recovery succeeded and the recovery's error if it failed.
C6_RecoveryBeforeReject ==
    (last.op = "withPage" /\ last.opErr = "Fatal") =>
        /\ last.from = "wp_catch" /\ last.cycles >= 1 /\ last.was # "recovering"
        /\ last.ret \in {"ok", "fail"}
        /\ last.result = (IF last.ret = "ok" THEN "Fatal" ELSE "RecoveryFailure")

\* A browser error whose recovery failed was settled.
C6_Witness ==
    last.opErr = "Fatal" /\ last.ret = "fail" /\ last.result = "RecoveryFailure"

\* C7 as claimed: withPage always rejects with the callback's own error.
C7_Original ==
    last.opErr \in {"Business", "Fatal"} => last.result = last.opErr

\* C7 as amended: withPage rejects with the callback's own error, except when
\* that error is a browser error and the recovery it triggers fails: then
\* the recovery's error is thrown.
C7_OriginalErrorUnlessRecoveryFails ==
    last.opErr \in {"Business", "Fatal"} =>
        \/ last.result = last.opErr
        \/ last.opErr = "Fatal" /\ last.ret = "fail" /\ last.result = "RecoveryFailure"

\* A browser error came through a successful recovery unchanged.
C7_Witness == last.opErr = "Fatal" /\ last.ret = "ok" /\ last.result = "Fatal"

\* C8 as claimed: a callback error that is no browser error leaves the call
\* without any rebuild and the state at Ready.
C8_Original ==
    last.opErr = "Business" =>
        (last.result = "Business" /\ last.cycles = 0 /\ state = "ready")

\* C8 as amended: handling a callback error that is no browser error
\* rethrows it, runs no recovery and leaves the handle as it is, and
\* releasePage() moves the state from Busy to Ready (a state that close(),
\* forceClose() or start() changed meanwhile is left alone).
C8_BusinessErrorFrame ==
    [][\A t \in Callers :
        (pc[t] = "wp_race" /\
         (opErr'[t] = "Business" \/ (last'.proc = t /\ last'.opErr = "Business"))) =>
            /\ pc'[t] = "idle" /\ last'.result = "Business"
            /\ handle' = handle /\ nextGen' = nextGen
            /\ state' = (IF state = "busy" THEN "ready" ELSE state)
      ]_vars

\* A business error was rethrown and the state went back to Ready.
C8_Witness ==
    last.opErr = "Business" /\ last.result = "Business" /\ last.was = "busy"
        /\ state = "ready"

\* C9: a recover() invoked while another rebuild is running collapses into
\* it and begins no rebuild cycle of its own.
C9_Collapse == \A t \in Callers : sawRecovering[t] => cycles[t] = 0

\* C10: when start() returns successfully, the state is Ready and the
\* keep-alive interval is scheduled.
C10_StartReady ==
    (last.op \in {"start", "restart"} /\ last.result = "ok") =>
        (state = "ready" /\ keepAliveTimer /\ timers >= 1)

\* A start() has just returned successfully.
C10_Witness == last.op = "start" /\ last.result = "ok"

\* C11 as claimed: whenever start() fails, on return the state is Error, no
\* keep-alive interval is scheduled and the call emitted one error event.
C11_Original ==
    last.result = "StartupFailure" =>
        (state = "error" /\ ~keepAliveTimer /\ timers = 0 /\ ErrorsIn(last.log) = 1)

\* C11 as amended: whenever start() fails, on return the state is Error and
\* the call emitted exactly one error event; no step of the failing call
\* touches the keep-alive interval, so none is scheduled unless one was left
\* by an earlier successful start() or set by a concurrent one.
C11_StartFailure ==
    [][\A t \in Callers :
        /\ (pc[t] \in StartAwaits /\ pc'[t] = "idle" /\ last'.result # "ok") =>
               /\ last'.result = "StartupFailure"
               /\ state' = "error"
               /\ ErrorsIn(last'.log) = 1
               /\ timer' = timer
        /\ (pc[t] \in StartAwaits /\ pc'[t] \in StartAwaits /\ pc'[t] # pc[t]) =>
               timer' = timer
      ]_vars

\* A start() has just failed, with no interval scheduled.
C11_Witness ==
    /\ last.op = "start" /\ last.result = "StartupFailure"
    /\ state = "error" /\ ~keepAliveTimer /\ ErrorsIn(last.log) = 1

\* C12: start() invoked in state Starting, LoggingIn, Ready, Busy or
\* Recovering fails at once, leaves the state, the handle and the keep-alive
\* timer as they are and emits no event.
C12_StartRejected ==
    [][\A t \in Callers :
        (StartInvoked(t) /\ state \notin {"uninitialized", "closed", "error"}) =>
            /\ pc'[t] = "idle" /\ last'.proc = t /\ last'.result = "InvalidState"
            /\ state' = state /\ handle' = handle /\ timer' = timer
            /\ last'.log = log[t]
      ]_vars

\* A start() was rejected while an operation was in flight.
C12_Witness ==
    last.op = "start" /\ last.result = "InvalidState" /\ state = "busy" /\ last.log = <<>>

\* C13: forceClose() never throws, and when it was called during the Busy
\* period of a withPage call and no call was made after it, the state is
\* Closed once both have returned.
C13_ForceCloseWhileBusy ==
    /\ last.op = "forceClose" => last.result = "ok"
    /\ (/\ last.op = "withPage" /\ last.forced # 0 /\ last.forced = calls
        /\ \A u \in Procs : pc[u] = "idle") => state = "closed"

\* C14: close() never throws, and when it returns the state is Closed and
\* no keep-alive interval is scheduled.
C14_CloseStopsAll ==
    last.op = "close" =>
        (last.result = "ok" /\ state = "closed" /\ ~keepAliveTimer /\ timers = 0)

\* C15: restart() sets the state to Closed before it starts again; its
\* start() launches a browser that is none of the objects held so far and
\* stores it, its context and its page in browser, context and page; and
\* when launch and login succeed restart() returns with the state Ready,
\* having emitted stateChange to Closed, Starting, LoggingIn and Ready.
C15_RestartNewHandle ==
    [][\A t \in Callers : op[t] = "restart" =>
        /\ (pc[t] = "cb_ret" /\ pc'[t] = "rs_start") => state' = "closed"
        /\ (pc[t] = "st_launch" /\ pc'[t] = "st_context") =>
               /\ {browser, context, page} \subseteq 0..nextGen
               /\ gen'[t] > nextGen /\ browser' = gen'[t]
        /\ (pc[t] = "st_context" /\ pc'[t] = "st_page") => context' = gen[t]
        /\ (pc[t] = "st_page" /\ pc'[t] = "st_login") => page' = gen[t]
        /\ (pc[t] # "idle" /\ pc'[t] = "idle" /\ last'.result = "ok") =>
               /\ pc[t] = "st_login" /\ state' = "ready"
               /\ last'.log = <<StateChange("closed"), StateChange("starting"),
                                StateChange("logging_in"), StateChange("ready")>>
      ]_vars

\* A restart() replaced the handle of an earlier launch by a complete new one.
C15_Witness ==
    /\ last.op = "restart" /\ last.result = "ok" /\ state = "ready"
    /\ nextGen = 2 /\ browser = 2 /\ context = 2 /\ page = 2

C17_TickNeverRejects == last.op = "tick" => last.result # "RecoveryFailure"

\* C18: every step that writes state, browser, context or page is taken by
\* the caller that holds the mutex.
C18_WritesUnderGate ==
    [][(state' # state \/ handle' # handle) =>
           \E t \in Procs : Stepped(t) /\ mutex.holder = t
      ]_vars

\* C19: browser, context and page are all present or all absent at every
\* await point, and a page is handed to a callback only with both others
\* present.
C19_HandleAtomic ==
    /\ HandleWhole
    /\ last.result = "running" => (browser # 0 /\ context # 0)

\* C20: every change of state is a row of the state-machine table.
C20_TableTransitions ==
    [][state' # state => <<state, state'>> \in TransitionTable]_vars

\* 2 to the power of n.
RECURSIVE Pow2(_)
Pow2(n) == IF n = 0 THEN 1 ELSE 2 * Pow2(n - 1)

\* C22: sendCallback with default options retries a failed callback 3 times
\* and waits 1, 2 and 4 seconds before the 1st, 2nd and 3rd retry.
C22_ExponentialBackoff ==
    (retries = DefaultRetries /\ retryDelay = DefaultRetryDelay) =>
        /\ \A i \in 1..Len(delays) : delays[i] = 1000 * Pow2(i - 1)
        /\ cbPc = "thrown" => (Len(delays) = 3 /\ attempt = 4)

\* C23: for every job the processor of createRpaJob handles,
\* BrowserManager.close() is called exactly once, after the handler settled,
\* on every exit path, no browser is left open, and a failed job rejects
\* with the error of the launch or of the handler.
C23_CloseOnceRethrow ==
    \A j \in Jobs :
        /\ closeCalls[j] <= 1
        /\ closeCalls[j] = 1 => jobPc[j] \in {"close", "returned", "thrown"}
        /\ jobPc[j] \in {"returned", "thrown"} =>
               /\ closeCalls[j] = 1
               /\ ~bmBrowser[j]
               /\ jobThrown[j] = jobError[j]

\* C24: in stub mode every job added to the queue is handed to the worker's
\* processor exactly once and yields exactly one completed or failed event,
\* whether it was added before or after the worker was created and over any
\* sequence of worker close and worker re-creation.
C24_ProcessedOnce ==
    \A j \in StubJobs :
        /\ processed[j] <= 1
        /\ delivered[j] <= 1
        /\ (/\ \E i \in 1..Len(jobQueues.jobs) : jobQueues.jobs[i] = j
            /\ workers # 0 /\ eventHandlers = "listeners"
            /\ immediates = {} /\ processing = {}) => processed[j] = 1

\* C25: a tick that fires while the state is not Ready does nothing and
\* does not queue for the mutex; the refresh and liveness hooks run only with
\* the mutex held by the tick, and never while the state is Busy,
\* Recovering, Error or Closed.
C25_DoubleCheck ==
    /\ (last.op = "tick" /\ last.result = "skipped" /\ last.was # "ready") =>
           (mutex.holder # Ticker /\ ~InWaiters(mutex, Ticker))
    /\ pc[Ticker] \in {"ka_refresh", "ka_check"} =>
           /\ mutex.holder = Ticker
           /\ \A t \in Callers : ~InOperation(t)
           /\ state \notin {"busy", "recovering", "error", "closed"}

\* C26: a withPage call that gets the mutex in a state that is neither
\* Ready nor Error rejects as unavailable without calling the callback and
\* leaves state and handle alone; in state Error it runs exactly one
\* recovery before the Ready check, and when that recovery fails, which
\* sets the state to Error, it rejects without calling the callback and
\* without changing the state.
C26_AcquireGuard ==
    [][\A t \in Callers :
        /\ (pc[t] = "wp_gate" /\ pc'[t] # "wp_gate") =>
               /\ state \notin {"ready", "error"} =>
                      /\ pc'[t] = "idle" /\ last'.proc = t /\ last'.result = "Unavailable"
                      /\ state' = state /\ handle' = handle /\ last'.log = <<>>
               /\ state = "error" =>
                      /\ riFrom'[t] = "acq" /\ cycles'[t] = 1
                      /\ pc'[t] \notin {"wp_race", "idle"}
        /\ (riFrom[t] = "acq" /\ ret[t] # "fail" /\ ret'[t] = "fail") => state' = "error"
        /\ (pc[t] = "ri_ret" /\ riFrom[t] = "acq" /\ pc'[t] # "ri_ret") =>
               /\ cycles[t] = 1
               /\ ret[t] = "fail" =>
                      /\ pc'[t] = "idle" /\ last'.proc = t /\ last'.result = "RecoveryFailure"
                      /\ state' = state /\ handle' = handle
               /\ pc'[t] = "wp_race" => (ret[t] = "ok" /\ state = "ready")
      ]_vars

\* A withPage call that found the state Error has rejected after its one
\* recovery failed.
C26_Witness ==
    /\ last.op = "withPage" /\ last.from = "acq" /\ last.cycles = 1
    /\ last.result = "RecoveryFailure" /\ state = "error"

\* C27: releasePage() called in state Busy sets the state to Ready, writes
\* the activity timestamp and emits the stateChange; called in any other
\* state it changes nothing and emits nothing; so a second call right after
\* a first one is a no-op.
C27_ReleaseIdempotent ==
    [][/\ \A t \in Callers : (InOperation(t) /\ pc'[t] = "idle") =>
            /\ last'.proc = t
            /\ state = "busy" =>
                   /\ state' = "ready" /\ last'.activity
                   /\ last'.log = log[t] \o <<StateChange("ready")>>
            /\ state # "busy" =>
                   /\ state' = state /\ ~last'.activity
                   /\ last'.log = log[t]
       /\ \A s \in SessionState :
            ReleasePage(ReleasePage(s).state) =
                [state |-> ReleasePage(s).state, touched |-> FALSE, emitted |-> <<>>]
      ]_vars

\* releasePage() ran in a withPage call whose state close() had changed
\* under it, and left it alone.
C27_Witness ==
    /\ last.op = "withPage" /\ last.opErr # None
    /\ last.was = "closed" /\ state = "closed" /\ ~last.activity

\* C28: recover() called while a withPage operation is in flight waits for
\* the mutex and writes nothing; from its recoverInternal() call until it
\* returns it holds the mutex, so its teardown and rebuild overlap no
\* callback of another caller and no keep-alive hook.
C28_RecoverWaits ==
    \A t \in Callers : op[t] = "recover" =>
        /\ pc[t] = "rec_gate" => (riFrom[t] = None /\ cycles[t] = 0)
        /\ pc[t] # "rec_gate" =>
               /\ mutex.holder = t
               /\ \A u \in Procs \ {t} :
                      ~InOperation(u) /\ pc[u] \notin {"ka_refresh", "ka_check"}

\* recover() was called while the callback of the other caller runs, and
\* waits in the queue of the mutex.
C28_Witness ==
    \E t, u \in Callers :
        /\ op[t] = "recover" /\ pc[t] = "rec_gate" /\ InWaiters(mutex, t)
        /\ pc[u] = "wp_race" /\ state = "busy" /\ page # 0

\* C29: a recoverInternal() run that passed the reentrancy guard emits
\* nothing until it ends, and it ends either in success, emitting recovered
\* and setting the state to Ready, or in failure, setting the state to Error,
\* emitting error and rethrowing to its invoker.
C29_RecoveryOutcome ==
    [][\A t \in Procs : (riFrom[t] # None /\ pc[t] \in RecoverInternalAwaits) =>
        /\ pc'[t] \in RecoverInternalAwaits => log'[t] = log[t]
        /\ pc'[t] \notin RecoverInternalAwaits =>
               /\ pc'[t] = "ri_ret"
               /\ \/ /\ ret'[t] = "ok" /\ state' = "ready"
                     /\ log'[t] = log[t] \o <<Emitted("recovered"), StateChange("ready")>>
                  \/ /\ ret'[t] = "fail" /\ state' = "error"
                     /\ log'[t] = log[t] \o <<StateChange("error"), Emitted("error")>>
      ]_vars

\* A recovery has just failed: one error event, the state Error, and the
\* failure on its way to the invoker.
C29_Witness ==
    \E t \in Procs :
        /\ pc[t] = "ri_ret" /\ ret[t] = "fail" /\ cycles[t] = 1
        /\ state = "error" /\ ErrorsIn(log[t]) = 1
        /\ \A i \in 1..Len(log[t]) : log[t][i] # Emitted("recovered")

\* C30: closeBrowser() never throws, and when it returns, no other call
\* being in progress, browser, context and page are all null, also when
\* closing the context or the browser failed.
C30_TeardownDestroys ==
    [][\A t \in Procs :
        (/\ pc[t] # "cb_ret" /\ pc'[t] = "cb_ret"
         /\ \A u \in Procs \ {t} : pc[u] = "idle") =>
            (browser' = 0 /\ context' = 0 /\ page' = 0)
      ]_vars

C31_RecoveryUnderGate ==
    /\ \A t \in Procs : riFrom[t] # None =>
           (mutex.holder = t /\ riFrom[t] \in {"acq", "wp_catch", "recover", "ka_try", "ka_catch"})
    /\ Cardinality({t \in Procs : riFrom[t] # None}) <= 1

\* The rebuild of a keep-alive tick runs while recover() waits for the mutex.
C31_Witness ==
    /\ riFrom[Ticker] \in {"ka_try", "ka_catch"} /\ pc[Ticker] = "ri_launch"
    /\ mutex.holder = Ticker
    /\ \E u \in Callers : op[u] = "recover" /\ InWaiters(mutex, u)

\* C32: sendCallback makes at most retries + 1 POST attempts; it returns
\* right after the first attempt answered with an ok response and makes no
\* attempt after it; it throws only after retries + 1 attempts failed, the
\* error thrown being that of the last attempt, and it waits no delay after
\* the last failed attempt.
C32_BoundedAttempts ==
    [][/\ cbPc' = "fetch" => attempt' <= retries'
       /\ cbPc = "text_ok" =>
              (cbPc' = "returned" /\ attempt' = attempt /\ delays' = delays)
       /\ cbPc \in {"returned", "thrown"} => UNCHANGED callbackVars
       /\ (cbPc' = "sleep" /\ cbPc # "sleep") => attempt < retries
       /\ (cbPc' = "thrown" /\ cbPc # "thrown") =>
              /\ attempt = retries /\ attempt' = retries + 1
              /\ delays' = delays /\ Len(delays) = retries
              /\ cbPc = "fetch" => lastError' \in {"Network", "Abort"}
              /\ cbPc = "text_error" => lastError' = "HTTP"
      ]_vars

\* All three attempts of a call with two retries failed, the last one with
\* an HTTP error, and the call has thrown after two delays.
C32_Witness ==
    /\ cbPc = "thrown" /\ retries = 2 /\ attempt = 3
    /\ Len(delays) = 2 /\ lastError = "HTTP"

\* C33: at most one launched browser is live at any time: chromium.launch()
\* is called, by start() or by recoverInternal(), only when the browser
\* launched before it has been closed and the browser field nulled, so no
\* launched browser is overwritten in the field without being closed.
C33_OneLiveBrowser ==
    [][nextGen' # nextGen => (browser = 0 /\ browser' = nextGen')]_vars

\* C34: whenever the state is Ready or Busy the keep-alive interval is
\* scheduled, however Ready was reached: by start(), by recover(), by the
\* auto-recovery of acquirePage() or by the recovery of a keep-alive tick
\* (stated for the states in which no close(), forceClose() or restart() is
\* between clearing the interval and setting the state).
C34_ReadyHasKeepAlive ==
    (/\ state \in {"ready", "busy"}
     /\ \A u \in Callers : op[u] \notin {"close", "forceClose", "restart"}) =>
        (keepAliveTimer /\ timers = 1)

\* C35: whenever the state is Ready or Busy, browser, context and page are
\* all non-null, under every interleaving of close() and forceClose() with a
\* start() or a recovery in progress (stated for the states in which no
\* close(), forceClose() or restart() is between its teardown and setting
\* the state).
C35_ReadyHasHandle ==
    (/\ state \in {"ready", "busy"}
     /\ \A u \in Callers : op[u] \notin {"close", "forceClose", "restart"}) =>
        (browser # 0 /\ context # 0 /\ page # 0)

\* C36: one keep-alive tick begins at most one rebuild cycle (teardown,
\* launch, login) and emits at most one error event, whether the liveness
\* check returned false or a hook threw, and whether the recovery succeeded
\* or failed.
C36_OneRebuildPerTick ==
    /\ cycles[Ticker] <= 1 /\ ErrorsIn(log[Ticker]) <= 1
    /\ last.op = "tick" => (last.cycles <= 1 /\ ErrorsIn(last.log) <= 1)

\* C37: at most one keep-alive interval is scheduled at any time, the one
\* keepAliveTimer refers to; only a start() that succeeds schedules one;
\* close(), forceClose() and the close() of restart() clear it when they are
\* called and no later step of close() or forceClose() schedules one, so
\* that after calls made one after another they return with none scheduled.
C37_OneInterval ==
    [][/\ timers' <= 1 /\ (timers' = 1) = keepAliveTimer'
       /\ \A t \in Callers :
            /\ (pc[t] = "idle" /\ op'[t] \in {"close", "forceClose", "restart"}) =>
                   (timers' = 0 /\ ~keepAliveTimer')
            /\ (op[t] \in {"close", "forceClose"} /\ Stepped(t)) => timer' = timer
       /\ (timer' # timer /\ keepAliveTimer') =>
              \E t \in Callers :
                  pc[t] = "st_login" /\ pc'[t] = "idle" /\ last'.result = "ok"
      ]_vars

\* A start() that began in state Error has returned while the tick of the
\* interval scheduled by an earlier start() is still running: one interval.
C37_Witness ==
    /\ last.op = "start" /\ last.result = "ok"
    /\ pc[Ticker] # "idle" /\ nextGen = 2
    /\ keepAliveTimer /\ timers = 1

\* C38: Closed is stable: with the state Closed no browser is launched, and
\* the state leaves Closed only through a start() (also that of restart())
\* called in it, or through a recover() being granted the mutex; a start()
\* or a recovery that was in progress when close() or forceClose() ran does
\* not move the state to LoggingIn, Ready or Error afterwards.
C38_ClosedStable ==
    [][state = "closed" =>
        /\ nextGen' = nextGen
        /\ state' # "closed" =>
               \E t \in Callers :
                   \/ StartInvoked(t) /\ state' = "starting"
                   \/ /\ op[t] = "recover" /\ pc[t] = "rec_gate" /\ pc'[t] # "rec_gate"
                      /\ state' = "recovering"
      ]_vars

\* Number of setState('busy') calls recorded in the event log l: the number
\* of times acquirePage() handed the page to withPage, which then calls fn.
BusyIn(l) == Cardinality({i \in 1..Len(l) : l[i] = StateChange("busy")})

\* C39: in every withPage call the callback is invoked at most once, in the
\* step in which acquirePage() found the state Ready and set it to Busy, and
\* while the call holds the mutex; a call whose acquirePage() threw, the
\* state not being Ready or its auto-recovery having failed, never invokes it.
C39_CallbackOnce ==
    /\ \A t \in Procs :
           /\ BusyIn(log[t]) <= 1
           /\ pc[t] = "wp_race" =>
                  (op[t] = "withPage" /\ mutex.holder = t /\ BusyIn(log[t]) = 1)
           /\ AtGate(t) => BusyIn(log[t]) = 0
    /\ last.result = "running" =>
           /\ last.op = "withPage" /\ last.was = "ready" /\ state = "busy"
           /\ mutex.holder = last.proc /\ last.page # 0
           /\ BusyIn(last.log) = 1
    /\ last.op = "withPage" => BusyIn(last.log) <= 1
    /\ (\/ last.result = "Unavailable"
        \/ last.result = "RecoveryFailure" /\ last.from = "acq") =>
           (last.op = "withPage" /\ last.opErr = None /\ BusyIn(last.log) = 0)

\* A withPage call whose auto-recovery succeeded has just invoked its
\* callback, the other caller's call waiting for the mutex.
C39_Witness ==
    /\ last.result = "running" /\ last.from = "acq" /\ last.cycles = 1
    /\ state = "busy" /\ mutex.holder = last.proc
    /\ \E u \in Callers : pc[u] = "wp_gate" /\ InWaiters(mutex, u)

====
